---- MODULE Spec2Model ----
(***************************************************************************)
(* The eth/63 subprotocol of p2p/eth.py: the command registry             *)
(* (_cmd_id, structure, _commands, cmd_length), the fetch ceilings and the *)
(* facade's send operations.  A message handed to the transport is a       *)
(* (header, body) pair; the body is kept in its serialised form, the       *)
(* nesting of byte strings that the sedes of the command's structure       *)
(* produce.                                                                *)
(***************************************************************************)
EXTENDS Integers, Sequences, FiniteSets

VARIABLES
    cmd_id_offset,  \* Protocol.cmd_id_offset of the connection the facade is bound to
    network_id,     \* peer.network_id of that connection
    sent,           \* the (header, body) pairs handed to the transport so far
    last            \* the operation performed last: its name, arguments and outcome

vars == <<cmd_id_offset, network_id, sent, last>>

----------------------------------------------------------------------------
(* Bounds of the model. *)

\* How many messages one connection hands to the transport.
MaxSent == 1
\* The largest max_headers a caller asks for.
MaxHeadersArg == 193
\* The largest inbound command identifier the transport delivers.
MaxIdentifier == 17
\* The length of the short lists a caller passes.
MaxListLen == 2

----------------------------------------------------------------------------
(* Constants of the module. *)

MAX_STATE_FETCH == 384
MAX_BODIES_FETCH == 128
MAX_RECEIPTS_FETCH == 256

MAX_HEADERS_FETCH == 192

version == 63
cmd_length == 17

----------------------------------------------------------------------------
(* Python values.  An int, a bytes, a bool or an object of one of the      *)
(* carried domain types is a record of one shape; a list is a sequence.    *)

PyInt(n) == [t |-> "int", n |-> n, b |-> <<>>]
PyBytes(b) == [t |-> "bytes", n |-> 0, b |-> b]
PyBool(v) == [t |-> "bool", n |-> IF v THEN 1 ELSE 0, b |-> <<>>]
PyObj(cls, n) == [t |-> cls, n |-> n, b |-> <<>>]

----------------------------------------------------------------------------
(* The sedes of the wire value codec. *)

RECURSIVE IntToBytes(_)
\* big_endian_int.serialize: the shortest big-endian byte string, b'' for 0.
IntToBytes(n) == IF n = 0 THEN <<>> ELSE Append(IntToBytes(n \div 256), n % 256)

RECURSIVE BytesToInt(_)
\* big_endian_int.deserialize
BytesToInt(s) ==
    IF s = <<>> THEN 0
    ELSE 256 * BytesToInt(SubSeq(s, 1, Len(s) - 1)) + s[Len(s)]

big_endian_int == <<"big_endian_int">>
binary == <<"binary">>
boolean == <<"boolean">>
HashOrNumber == <<"HashOrNumber">>
BlockHeader == <<"Serializable", "BlockHeader">>
BlockBody == <<"Serializable", "BlockBody">>
Receipt == <<"Serializable", "Receipt">>
BaseTransactionFields == <<"Serializable", "BaseTransactionFields">>
CountableList(element_sedes) == <<"CountableList", element_sedes>>
List(elements) == <<"List", elements>>

RECURSIVE Serialize(_, _)
Serialize(s, v) ==
    CASE s[1] = "big_endian_int" -> IntToBytes(v.n)
      [] s[1] = "binary" -> v.b
      [] s[1] = "boolean" -> IF v.n = 1 THEN <<1>> ELSE <<>>
      [] s[1] = "HashOrNumber" -> IF v.t = "int" THEN IntToBytes(v.n) ELSE v.b
      [] s[1] = "Serializable" -> <<IntToBytes(v.n)>>
      [] s[1] = "CountableList" -> [i \in 1..Len(v) |-> Serialize(s[2], v[i])]
      [] s[1] = "List" -> [i \in 1..Len(s[2]) |-> Serialize(s[2][i], v[i])]

RECURSIVE Deserialize(_, _)
Deserialize(s, serial) ==
    CASE s[1] = "big_endian_int" -> PyInt(BytesToInt(serial))
      [] s[1] = "binary" -> PyBytes(serial)
      [] s[1] = "boolean" -> PyBool(serial = <<1>>)
      [] s[1] = "HashOrNumber" ->
            IF Len(serial) = 32 THEN PyBytes(serial) ELSE PyInt(BytesToInt(serial))
      [] s[1] = "Serializable" -> PyObj(s[2], BytesToInt(serial[1]))
      [] s[1] = "CountableList" ->
            [i \in 1..Len(serial) |-> Deserialize(s[2], serial[i])]
      [] s[1] = "List" -> [i \in 1..Len(s[2]) |-> Deserialize(s[2][i], serial[i])]

----------------------------------------------------------------------------
(* The command kinds. *)

Fields(fs) == <<"fields", fs>>

_cmd_id_shifted ==
    [Status |-> 0, NewBlockHashes |-> 1, Transactions |-> 2, GetBlockHeaders |-> 3,
     BlockHeaders |-> 4, GetBlockBodies |-> 5, BlockBodies |-> 6, NewBlock |-> 7,
     GetNodeData |-> 12, NodeData |-> 13, GetReceipts |-> 14, Receipts |-> 15]

_cmd_id_swapped_vacant ==
    [Status |-> 0, NewBlockHashes |-> 1, Transactions |-> 2, GetBlockHeaders |-> 3,
     BlockHeaders |-> 4, GetBlockBodies |-> 5, BlockBodies |-> 6, NewBlock |-> 8,
     GetNodeData |-> 13, NodeData |-> 14, GetReceipts |-> 15, Receipts |-> 16]

_cmd_id_shifted_down ==
    [Status |-> 0, NewBlockHashes |-> 1, Transactions |-> 2, GetBlockHeaders |-> 3,
     BlockHeaders |-> 4, GetBlockBodies |-> 5, BlockBodies |-> 6, NewBlock |-> 7,
     GetNodeData |-> 8, NodeData |-> 9, GetReceipts |-> 10, Receipts |-> 11]

_cmd_id_swapped ==
    [Status |-> 2, NewBlockHashes |-> 1, Transactions |-> 0, GetBlockHeaders |-> 3,
     BlockHeaders |-> 4, GetBlockBodies |-> 5, BlockBodies |-> 6, NewBlock |-> 7,
     GetNodeData |-> 13, NodeData |-> 14, GetReceipts |-> 15, Receipts |-> 16]

_cmd_id ==
    [Status |-> 0, NewBlockHashes |-> 1, Transactions |-> 2, GetBlockHeaders |-> 3,
     BlockHeaders |-> 4, GetBlockBodies |-> 5, BlockBodies |-> 6, NewBlock |-> 7,
     GetNodeData |-> 13, NodeData |-> 14, GetReceipts |-> 15, Receipts |-> 16]

structure ==
    [Status |-> Fields(<< <<"protocol_version", big_endian_int>>,
                          <<"network_id", big_endian_int>>,
                          <<"td", big_endian_int>>,
                          <<"best_hash", binary>>,
                          <<"genesis_hash", binary>> >>),
     NewBlockHashes |-> CountableList(List(<<binary, big_endian_int>>)),
     Transactions |-> CountableList(BaseTransactionFields),
     GetBlockHeaders |-> Fields(<< <<"block_number_or_hash", HashOrNumber>>,
                                   <<"max_headers", big_endian_int>>,
                                   <<"skip", big_endian_int>>,
                                   <<"reverse", boolean>> >>),
     BlockHeaders |-> CountableList(BlockHeader),
     GetBlockBodies |-> CountableList(binary),
     BlockBodies |-> CountableList(BlockBody),
     NewBlock |-> Fields(<< <<"block", List(<<BlockHeader,
                                              CountableList(BaseTransactionFields),
                                              CountableList(BlockHeader)>>)>>,
                            <<"total_difficulty", big_endian_int>> >>),
     GetNodeData |-> CountableList(binary),
     NodeData |-> CountableList(binary),
     GetReceipts |-> CountableList(binary),
     Receipts |-> CountableList(CountableList(Receipt))]

_commands ==
    <<"Status", "NewBlockHashes", "Transactions", "GetBlockHeaders", "BlockHeaders",
      "BlockHeaders", "GetBlockBodies", "BlockBodies", "NewBlock", "GetNodeData",
      "NodeData", "GetReceipts", "Receipts">>

----------------------------------------------------------------------------
(* Command and Protocol of p2p.protocol, as eth.py uses them. *)

\* Command.__init__: the absolute command ID of a kind on this connection.
Command(cls, offset) == [cls |-> cls, cmd_id |-> offset + _cmd_id[cls]]

FieldNames(cls) == [i \in 1..Len(structure[cls][2]) |-> structure[cls][2][i][1]]
FieldSedes(cls) == [i \in 1..Len(structure[cls][2]) |-> structure[cls][2][i][2]]

\* Command.encode: the header is the encoded absolute command ID; a dict is laid
\* out in the order of the structure's fields, a list is encoded as it is.
encode(cmd, data) ==
    [header |-> IntToBytes(cmd.cmd_id),
     body |-> IF structure[cmd.cls][1] = "fields"
              THEN Serialize(List(FieldSedes(cmd.cls)),
                             [i \in 1..Len(FieldNames(cmd.cls)) |->
                                 data[FieldNames(cmd.cls)[i]]])
              ELSE Serialize(structure[cmd.cls], data)]

IndexOf(seq, x) == CHOOSE i \in 1..Len(seq) : seq[i] = x

\* Command.decode_payload: a dict keyed by the field names, or the decoded list.
decode(cls, body) ==
    IF structure[cls][1] = "fields"
    THEN [f \in {FieldNames(cls)[i] : i \in 1..Len(FieldNames(cls))} |->
             Deserialize(FieldSedes(cls)[IndexOf(FieldNames(cls), f)],
                         body[IndexOf(FieldNames(cls), f)])]
    ELSE Deserialize(structure[cls], body)

\* Protocol.__init__: one Command per entry of _commands, keyed by absolute ID.
cmd_by_id(offset) ==
    [id \in {Command(_commands[i], offset).cmd_id : i \in 1..Len(_commands)} |->
        CHOOSE cls \in {_commands[i] : i \in 1..Len(_commands)} :
            Command(cls, offset).cmd_id = id]

\* The dispatcher's lookup of an inbound command ID.
resolve(offset, id) ==
    IF id - offset < cmd_length /\ id \in DOMAIN cmd_by_id(offset)
    THEN [error |-> "none", cls |-> cmd_by_id(offset)[id],
          shape |-> structure[cmd_by_id(offset)[id]]]
    ELSE [error |-> "UnknownCommand", cls |-> "none", shape |-> <<>>]

\* Protocol.send: the pair goes to the transport.
send(msg) == sent' = Append(sent, msg)

----------------------------------------------------------------------------
(* The arguments the callers pass. *)

Hash(k) == [i \in 1..32 |-> (k * 37 + i) % 256]

Offsets == {0, 16, 250}
NetworkIds == {1, 3}

\* ChainInfo values: total_difficulty, block_hash, genesis_hash.
Heads ==
    {[total_difficulty |-> 0, block_hash |-> Hash(1), genesis_hash |-> Hash(1)],
     [total_difficulty |-> 70000, block_hash |-> Hash(2), genesis_hash |-> Hash(3)]}

Starts == {PyInt(42), PyBytes(Hash(1))}
MaxHeadersArgs == {10, MAX_HEADERS_FETCH, MaxHeadersArg}
Skips == {0, 5}

ElementOf(op, i) ==
    CASE op \in {"send_get_node_data", "send_get_block_bodies", "send_get_receipts"} ->
            PyBytes(Hash(i))
      [] op = "send_node_data" -> PyBytes([j \in 1..(i % 3) |-> (i + j) % 256])
      [] op = "send_block_headers" -> PyObj("BlockHeader", i)
      [] op = "send_block_bodies" -> PyObj("BlockBody", i)
      [] op = "send_receipts" -> [j \in 1..(i % 3) |-> PyObj("Receipt", i + j)]
      [] op = "send_transactions" -> PyObj("BaseTransactionFields", i)

ListOps ==
    {"send_get_node_data", "send_node_data", "send_block_headers",
     "send_get_block_bodies", "send_block_bodies", "send_get_receipts",
     "send_receipts", "send_transactions"}

LongLens(op) ==
    CASE op = "send_get_block_bodies" -> {MAX_BODIES_FETCH + 1}
      [] op = "send_get_receipts" -> {MAX_RECEIPTS_FETCH + 1}
      [] OTHER -> {MAX_STATE_FETCH + 1}

\* The lists a caller passes to a list operation: the short lists, in both
\* orders, and one list longer than the ceiling.
ArgLists ==
    [op \in ListOps |->
        {[i \in 1..n |-> ElementOf(op, i)] : n \in (0..MaxListLen) \cup LongLens(op)}
        \cup {[i \in 1..n |-> ElementOf(op, n + 1 - i)] : n \in 2..MaxListLen}]

----------------------------------------------------------------------------
(* The facade's operations. *)

Min(a, b) == IF a < b THEN a ELSE b

Init ==
    /\ cmd_id_offset \in Offsets
    /\ network_id \in NetworkIds
    /\ sent = <<>>
    /\ last = [op |-> "none", args |-> <<>>, result |-> "none"]

\* cmd = <kind>(self.cmd_id_offset); self.send(*cmd.encode(data))
EncodeAndSend(op, args, cls, data) ==
    /\ Len(sent) < MaxSent
    /\ send(encode(Command(cls, cmd_id_offset), data))
    /\ last' = [op |-> op, args |-> args, result |-> "ok"]
    /\ UNCHANGED <<cmd_id_offset, network_id>>

resp_hashes_swapped(head_info) ==
    [protocol_version |-> PyInt(version),
     network_id |-> PyInt(network_id),
     td |-> PyInt(head_info.total_difficulty),
     best_hash |-> PyBytes(head_info.genesis_hash),
     genesis_hash |-> PyBytes(head_info.block_hash)]

resp(head_info) ==
    [protocol_version |-> PyInt(version),
     network_id |-> PyInt(network_id),
     td |-> PyInt(head_info.total_difficulty),
     best_hash |-> PyBytes(head_info.block_hash),
     genesis_hash |-> PyBytes(head_info.genesis_hash)]

send_handshake(head_info) ==
    EncodeAndSend("send_handshake", head_info, "Status", resp(head_info))

send_get_node_data(node_hashes) ==
    EncodeAndSend("send_get_node_data", node_hashes, "GetNodeData", node_hashes)

send_node_data(nodes) ==
    EncodeAndSend("send_node_data", nodes, "NodeData", nodes)

\* The arguments of a send_get_block_headers call, as the caller passed them.
GetBlockHeadersArgs(block_number_or_hash, max_headers, skip, reverse) ==
    [block_number_or_hash |-> block_number_or_hash, max_headers |-> max_headers,
     skip |-> skip, reverse |-> reverse]

data_swapped(block_number_or_hash, max_headers, skip, reverse) ==
    [block_number_or_hash |-> block_number_or_hash,
     max_headers |-> PyInt(skip),
     skip |-> PyInt(max_headers),
     reverse |-> PyBool(reverse)]

data(block_number_or_hash, max_headers, skip, reverse) ==
    [block_number_or_hash |-> block_number_or_hash,
     max_headers |-> PyInt(max_headers),
     skip |-> PyInt(skip),
     reverse |-> PyBool(reverse)]

ExceedsHeadersCeiling_off_by_one(max_headers) == max_headers >= MAX_HEADERS_FETCH

ExceedsHeadersCeiling(max_headers) == max_headers > MAX_HEADERS_FETCH

send_get_block_headers_truncating(block_number_or_hash, max_headers, skip, reverse) ==
    EncodeAndSend("send_get_block_headers",
                  GetBlockHeadersArgs(block_number_or_hash, max_headers, skip, reverse),
                  "GetBlockHeaders",
                  data(block_number_or_hash, Min(max_headers, MAX_HEADERS_FETCH),
                       skip, reverse))

send_get_block_headers(block_number_or_hash, max_headers, skip, reverse) ==
    IF ExceedsHeadersCeiling(max_headers)
    THEN /\ Len(sent) < MaxSent
         /\ last' = [op |-> "send_get_block_headers",
                     args |-> GetBlockHeadersArgs(block_number_or_hash, max_headers,
                                                  skip, reverse),
                     result |-> "ValueError"]
         /\ UNCHANGED <<cmd_id_offset, network_id, sent>>
    ELSE EncodeAndSend("send_get_block_headers",
                       GetBlockHeadersArgs(block_number_or_hash, max_headers,
                                           skip, reverse),
                       "GetBlockHeaders",
                       data(block_number_or_hash, max_headers, skip, reverse))

send_block_headers(headers) ==
    EncodeAndSend("send_block_headers", headers, "BlockHeaders", headers)

send_get_block_bodies_truncating(block_hashes) ==
    EncodeAndSend("send_get_block_bodies", block_hashes, "GetBlockBodies",
                  SubSeq(block_hashes, 1, Min(Len(block_hashes), MAX_BODIES_FETCH)))

send_get_block_bodies(block_hashes) ==
    EncodeAndSend("send_get_block_bodies", block_hashes, "GetBlockBodies", block_hashes)

send_block_bodies(blocks) ==
    EncodeAndSend("send_block_bodies", blocks, "BlockBodies", blocks)

send_get_receipts(block_hashes) ==
    EncodeAndSend("send_get_receipts", block_hashes, "GetReceipts", block_hashes)

send_receipts(receipts) ==
    EncodeAndSend("send_receipts", receipts, "Receipts", receipts)

send_transactions(transactions) ==
    EncodeAndSend("send_transactions", transactions, "Transactions", transactions)

Next ==
    \/ \E head_info \in Heads : send_handshake(head_info)
    \/ \E node_hashes \in ArgLists["send_get_node_data"] :
          send_get_node_data(node_hashes)
    \/ \E nodes \in ArgLists["send_node_data"] : send_node_data(nodes)
    \/ \E block_number_or_hash \in Starts, max_headers \in MaxHeadersArgs,
          skip \in Skips, reverse \in BOOLEAN :
          send_get_block_headers(block_number_or_hash, max_headers, skip, reverse)
    \/ \E headers \in ArgLists["send_block_headers"] : send_block_headers(headers)
    \/ \E block_hashes \in ArgLists["send_get_block_bodies"] :
          send_get_block_bodies(block_hashes)
    \/ \E blocks \in ArgLists["send_block_bodies"] : send_block_bodies(blocks)
    \/ \E block_hashes \in ArgLists["send_get_receipts"] :
          send_get_receipts(block_hashes)
    \/ \E receipts \in ArgLists["send_receipts"] : send_receipts(receipts)
    \/ \E transactions \in ArgLists["send_transactions"] :
          send_transactions(transactions)

Spec == Init /\ [][Next]_vars

\* The inbound direction: the transport delivers a message tagged with a command
\* identifier and the dispatcher resolves it.
Dispatch(identifier) ==
    /\ last' = [op |-> "resolve", args |-> identifier,
                result |-> resolve(cmd_id_offset, cmd_id_offset + identifier)]
    /\ UNCHANGED <<cmd_id_offset, network_id, sent>>

NextInbound == \E identifier \in 0..MaxIdentifier : Dispatch(identifier)

SpecInbound == Init /\ [][NextInbound]_vars

----------------------------------------------------------------------------
(* What the transport received. *)

\* The absolute command ID recovered from a sent message.
MsgCmdId(msg) == BytesToInt(msg.header)

LastSent == sent[Len(sent)]

\* The step handed exactly one message to the transport.
HandedOne == Len(sent') = Len(sent) + 1 /\ SubSeq(sent', 1, Len(sent)) = sent

\* The serialised form of the start of a GetBlockHeaders request.
StartSerial(v) == IF v.t = "int" THEN IntToBytes(v.n) ELSE v.b

----------------------------------------------------------------------------
(* C1: send_get_block_headers raises exactly when max_headers > 192: a call   *)
(* with max_headers of 193 or more fails, whatever the start, skip and        *)
(* reverse, and a call with 192 or less succeeds and hands exactly one        *)
(* GetBlockHeaders header+body pair to the transport.                         *)
C1_HeadersCeiling ==
    [][last'.op = "send_get_block_headers" =>
         IF last'.args.max_headers > 192
         THEN last'.result = "ValueError"
         ELSE /\ last'.result = "ok"
              /\ HandedOne
              /\ MsgCmdId(sent'[Len(sent')]) = cmd_id_offset + 3
              /\ Len(sent'[Len(sent')].body) = 4]_vars

C1_Witness ==
    /\ last.op = "send_get_block_headers"
    /\ last.args.max_headers = 192
    /\ last.result = "ok"
    /\ Len(sent) = 1

OpIdentifier ==
    [send_handshake |-> 0, send_transactions |-> 2, send_get_block_headers |-> 3,
     send_block_headers |-> 4, send_get_block_bodies |-> 5, send_block_bodies |-> 6,
     send_get_node_data |-> 13, send_node_data |-> 14, send_get_receipts |-> 15,
     send_receipts |-> 16]

(* C3: the message a send operation hands to the transport carries the        *)
(* absolute command ID base_offset + identifier of the kind the operation is  *)
(* named for, base_offset being the offset of the facade's connection.        *)
C3_AbsoluteCommandId ==
    last.result = "ok" =>
        /\ Len(sent) >= 1
        /\ MsgCmdId(LastSent) = cmd_id_offset + OpIdentifier[last.op]

C3_Witness ==
    /\ last.op = "send_receipts"
    /\ last.result = "ok"
    /\ cmd_id_offset = 250
    /\ MsgCmdId(LastSent) = 266

\* The identifiers registered on this connection, relative to its offset.
RegisteredIdentifiers ==
    {id - cmd_id_offset : id \in DOMAIN cmd_by_id(cmd_id_offset)}

\* The kinds registered for this protocol version.
RegisteredKinds == {_commands[i] : i \in 1..Len(_commands)}

(* C4 as stated: the identifiers of the registered kinds are contiguous from  *)
(* 0 up to count - 1, count being the number of registered kinds, and         *)
(* cmd_length equals that count.                                              *)
C4_ContiguousIdentifiers ==
    /\ RegisteredIdentifiers = 0..(Cardinality(RegisteredKinds) - 1)
    /\ cmd_length = Cardinality(RegisteredKinds)

(* C4 as amended: the identifiers of the twelve registered kinds are          *)
(* distinct and are 0 to 7 and 13 to 16, the slots 8 to 12 are vacant, and    *)
(* cmd_length is 17, one more than the highest identifier and larger than     *)
(* the number of kinds.                                                       *)
C4_IdentifiersWithinCmdLength ==
    /\ RegisteredIdentifiers = (0..7) \cup (13..16)
    /\ Cardinality(RegisteredKinds) = 12
    /\ Cardinality(RegisteredIdentifiers) = Cardinality(RegisteredKinds)
    /\ cmd_length = 17
    /\ \A identifier \in RegisteredIdentifiers : identifier < cmd_length
    /\ cmd_length - 1 \in RegisteredIdentifiers

C4_Witness ==
    /\ last.op = "resolve"
    /\ last.args = 16
    /\ last.result.error = "none"
    /\ last.result.cls = "Receipts"

KindOfIdentifier ==
    [identifier \in (0..7) \cup (13..16) |->
        CASE identifier = 0 -> "Status"
          [] identifier = 1 -> "NewBlockHashes"
          [] identifier = 2 -> "Transactions"
          [] identifier = 3 -> "GetBlockHeaders"
          [] identifier = 4 -> "BlockHeaders"
          [] identifier = 5 -> "GetBlockBodies"
          [] identifier = 6 -> "BlockBodies"
          [] identifier = 7 -> "NewBlock"
          [] identifier = 13 -> "GetNodeData"
          [] identifier = 14 -> "NodeData"
          [] identifier = 15 -> "GetReceipts"
          [] identifier = 16 -> "Receipts"]

(* C5: resolving an inbound identifier fails with UnknownCommand for every    *)
(* identifier >= cmd_length and for the vacant slots 8 to 12, and returns the *)
(* kind's shape for the identifiers 0 to 7 and 13 to 16; the outcome is       *)
(* always one of the two, never a silent drop.                                *)
C5_ResolveIdentifier ==
    last.op = "resolve" =>
        IF last.args \in DOMAIN KindOfIdentifier
        THEN /\ last.result.error = "none"
             /\ last.result.cls = KindOfIdentifier[last.args]
             /\ last.result.shape = structure[KindOfIdentifier[last.args]]
        ELSE /\ last.result.error = "UnknownCommand"
             /\ last.result.cls = "none"

C5_Witness ==
    /\ last.op = "resolve"
    /\ last.args \in 8..12
    /\ last.result.error = "UnknownCommand"

C7_HandshakeStatus ==
    [][last'.op = "send_handshake" =>
         /\ HandedOne
         /\ MsgCmdId(sent'[Len(sent')]) = cmd_id_offset
         /\ sent'[Len(sent')].body =
               <<IntToBytes(63), IntToBytes(network_id),
                 IntToBytes(last'.args.total_difficulty),
                 last'.args.block_hash, last'.args.genesis_hash>>]_vars

C7_Witness ==
    /\ last.op = "send_handshake"
    /\ last.args.block_hash # last.args.genesis_hash
    /\ network_id = 3
    /\ Len(sent) = 1
    /\ decode("Status", LastSent.body).network_id = PyInt(3)

(* C8 as stated: the first message handed to the transport on a connection    *)
(* is the Status handshake.                                                   *)
C8_StatusFirst == Len(sent) >= 1 => MsgCmdId(sent[1]) = cmd_id_offset + 0

(* C8 as amended: the facade does not order its operations; the first message *)
(* on a connection is the message of the first send operation that succeeds,  *)
(* and it is the Status handshake exactly when that operation is              *)
(* send_handshake.                                                            *)
C8_FirstMessageIsFirstCall ==
    [][(sent = <<>> /\ sent' # <<>>) =>
         /\ MsgCmdId(sent'[1]) = cmd_id_offset + OpIdentifier[last'.op]
         /\ (MsgCmdId(sent'[1]) = cmd_id_offset + 0 <=> last'.op = "send_handshake")]_vars

C8_Witness ==
    /\ Len(sent) >= 1
    /\ last.op = "send_transactions"
    /\ MsgCmdId(sent[1]) = cmd_id_offset + 2

KindOfListOp ==
    [send_get_node_data |-> "GetNodeData", send_node_data |-> "NodeData",
     send_block_headers |-> "BlockHeaders", send_get_block_bodies |-> "GetBlockBodies",
     send_block_bodies |-> "BlockBodies", send_get_receipts |-> "GetReceipts",
     send_receipts |-> "Receipts", send_transactions |-> "Transactions"]

(* C9: each list operation succeeds for a list of any length and hands        *)
(* exactly one message to the transport, whose payload decodes to the         *)
(* argument list: the same elements in the same order, none dropped; the      *)
(* operation is complete when the message is handed over.                     *)
C9_ListPayloadUnchanged ==
    [][last'.op \in ListOps =>
         /\ last'.result = "ok"
         /\ HandedOne
         /\ Len(sent'[Len(sent')].body) = Len(last'.args)
         /\ decode(KindOfListOp[last'.op], sent'[Len(sent')].body) = last'.args]_vars

C9_Witness ==
    /\ last.op = "send_get_block_bodies"
    /\ Len(last.args) > 128
    /\ Len(sent) = 1
    /\ Len(LastSent.body) = Len(last.args)

(* C10: a send_get_block_headers call rejected by the ceiling check hands     *)
(* nothing to the transport and changes nothing; a call that succeeds sends   *)
(* the max_headers the caller passed, whatever was called before.             *)
C10_RejectedHasNoEffect ==
    [][last'.op = "send_get_block_headers" =>
         /\ last'.result = "ValueError" =>
               /\ sent' = sent
               /\ cmd_id_offset' = cmd_id_offset
               /\ network_id' = network_id
         /\ last'.result = "ok" =>
               /\ HandedOne
               /\ sent'[Len(sent')].body =
                     <<StartSerial(last'.args.block_number_or_hash),
                       IntToBytes(last'.args.max_headers),
                       IntToBytes(last'.args.skip),
                       IF last'.args.reverse THEN <<1>> ELSE <<>> >>]_vars

C10_Witness ==
    /\ last.op = "send_get_block_headers"
    /\ last.result = "ValueError"
    /\ last.args.max_headers > 192
    /\ sent = <<>>

====
